---- MODULE Spec2Model ----
(***************************************************************************)
(* Model of the stylesets lookup engine: StyleSet -> Package -> Variant,    *)
(* dot-notation search, default resolution and result stringification.      *)
(*                                                                          *)
(* A JavaScript string is a sequence of characters.  A character is "."    *)
(* (the path separator), " " (the token separator) or an atom: a TLA+       *)
(* string that stands for a non-empty run of characters holding neither a   *)
(* dot nor a space.  "button.size.lg" is <<"button", ".", "size", ".",      *)
(* "lg">> and "p-4 m-4" is <<"p-4", " ", "m-4">>.                           *)
(***************************************************************************)
EXTENDS Integers, Sequences, FiniteSets, TLC

VARIABLES root, op, args, result

vars == <<root, op, args, result>>

----------------------------------------------------------------------------
(* Bounds *)

\* The most paths one StyleSet.search call is given.
MaxPaths == 2

\* The most entries a generated variant mapping holds.
MaxKeys == 2

\* The most segments of a path given to identify.
MaxSegs == 4

----------------------------------------------------------------------------
(* JavaScript values *)

DOT == "."
SP == " "

\* The one-atom string.
W(a) == <<a>>

Str(s) == [t |-> "str", s |-> s]
Arr(a) == [t |-> "arr", a |-> a]
Undefined == [t |-> "undefined"]
Null == [t |-> "null"]

IsStr(x) == x.t = "str"
IsArr(x) == x.t = "arr"

\* The array of the one-atom strings of a sequence of atoms.
Words(as) == Arr([i \in 1..Len(as) |-> Str(W(as[i]))])

\* Truthiness of a string, null or undefined (if (x) ...).
Truthy(x) == IsArr(x) \/ (IsStr(x) /\ x.s # <<>>)

\* String.prototype.split(sep): the segments between the separators; the
\* empty string gives one empty segment.
RECURSIVE SplitFrom(_, _, _, _, _)
SplitFrom(s, sep, i, cur, acc) ==
  IF i > Len(s) THEN Append(acc, cur)
  ELSE IF s[i] = sep THEN SplitFrom(s, sep, i + 1, <<>>, Append(acc, cur))
  ELSE SplitFrom(s, sep, i + 1, Append(cur, s[i]), acc)

split(s, sep) == SplitFrom(s, sep, 1, <<>>, <<>>)

\* Concatenation of a sequence of strings with sep between neighbours.
RECURSIVE JoinStrings(_, _)
JoinStrings(ss, sep) ==
  IF Len(ss) = 0 THEN <<>>
  ELSE IF Len(ss) = 1 THEN ss[1]
  ELSE ss[1] \o <<sep>> \o JoinStrings(Tail(ss), sep)

\* What Array.prototype.join makes of one element: null and undefined give
\* the empty string, a nested array is joined with ",".
RECURSIVE ElementString(_)
ElementString(e) ==
  IF IsStr(e) THEN e.s
  ELSE IF IsArr(e)
    THEN JoinStrings([i \in 1..Len(e.a) |-> ElementString(e.a[i])], ",")
  ELSE <<>>

\* Array.prototype.join(sep) over an array of values.
join(a, sep) == JoinStrings([i \in 1..Len(a) |-> ElementString(a[i])], sep)

----------------------------------------------------------------------------
(* Map<string, X>, in insertion order: a sequence of [k, v] with distinct k *)

MapHas(m, key) == IsStr(key) /\ \E i \in 1..Len(m) : m[i].k = key.s

MapGet(m, key) ==
  IF MapHas(m, key)
    THEN m[CHOOSE i \in 1..Len(m) : m[i].k = key.s].v
    ELSE Undefined

MapValues(m) == [i \in 1..Len(m) |-> m[i].v]

MapKeys(m) == {m[i].k : i \in 1..Len(m)}

----------------------------------------------------------------------------
(* VariantResult *)

\* new VariantResult(value): an array is kept as the value, anything else
\* is wrapped in a one-element array.
VariantResult(value) ==
  [kind |-> "VariantResult",
   value |-> IF IsArr(value) THEN value.a ELSE <<value>>]

VariantResult_length(r) == Len(r.value)

VariantResult_toString(r) == join(r.value, SP)

----------------------------------------------------------------------------
(* Variant *)

DEFAULT == Str(W("default"))

\* Variant.compile(key) that follows the value of the key the default names
\* when it names a key in its turn.
Variant_compile_TwoHops(variants, key) ==
  IF MapHas(variants, DEFAULT)
    THEN LET value == MapGet(variants, DEFAULT)
         IN  IF IsStr(value)
               THEN IF MapHas(variants, value)
                      THEN IF MapHas(variants, MapGet(variants, value))
                             THEN VariantResult(
                                    MapGet(variants, MapGet(variants, value)))
                             ELSE VariantResult(MapGet(variants, value))
                      ELSE VariantResult(value)
               ELSE VariantResult(MapGet(variants, key))
    ELSE VariantResult(MapGet(variants, key))

\* Variant.compile(key) without the lookup of the key the default names: the
\* default's own value is returned.
Variant_compile_NoIndirection(variants, key) ==
  IF MapHas(variants, DEFAULT)
    THEN LET value == MapGet(variants, DEFAULT)
         IN  IF IsStr(value)
               THEN VariantResult(value)
               ELSE VariantResult(MapGet(variants, key))
    ELSE VariantResult(MapGet(variants, key))

\* Variant.compile(key)
Variant_compile(variants, key) ==
  IF MapHas(variants, DEFAULT)
    THEN LET value == MapGet(variants, DEFAULT)
         IN  IF IsStr(value)
               THEN IF MapHas(variants, value)
                      THEN VariantResult(MapGet(variants, value))
                      ELSE VariantResult(value)
               ELSE VariantResult(MapGet(variants, key))
    ELSE VariantResult(MapGet(variants, key))

\* flatMap((value) => (Array.isArray(value) ? value : [value]))
RECURSIVE FlattenValues(_)
FlattenValues(vs) ==
  IF Len(vs) = 0 THEN <<>>
  ELSE (IF IsArr(vs[1]) THEN vs[1].a ELSE <<vs[1]>>) \o FlattenValues(Tail(vs))

\* Variant.toString()
Variant_toString(variants) == join(FlattenValues(MapValues(variants)), SP)

----------------------------------------------------------------------------
(* Identifier *)

\* new Identifier(path) that takes the first of two segments as the package.
Identifier_TwoSegPackage(path) ==
  LET parts == split(path, DOT)
  IN  IF ~Truthy(Arr(parts)) THEN [kind |-> "throw"]
      ELSE IF Len(parts) = 1
        THEN [package |-> Null, variant |-> Str(parts[1]), variation |-> Null]
      ELSE IF Len(parts) = 2
        THEN [package |-> Str(parts[1]), variant |-> Str(parts[2]),
              variation |-> Null]
      ELSE [package |-> Str(parts[1]), variant |-> Str(parts[2]),
            variation |-> Str(parts[3])]

\* new Identifier(path) that rejects the path that is falsy, the empty one.
Identifier_RejectEmpty(path) ==
  LET parts == split(path, DOT)
  IN  IF ~Truthy(Str(path)) THEN [kind |-> "throw"]
      ELSE IF Len(parts) = 1
        THEN [package |-> Null, variant |-> Str(parts[1]), variation |-> Null]
      ELSE IF Len(parts) = 2
        THEN [package |-> Null, variant |-> Str(parts[1]),
              variation |-> Str(parts[2])]
      ELSE [package |-> Str(parts[1]), variant |-> Str(parts[2]),
            variation |-> Str(parts[3])]

\* new Identifier(path) that takes every segment after the second as the
\* variation.
Identifier_RestJoined(path) ==
  LET parts == split(path, DOT)
  IN  IF ~Truthy(Arr(parts)) THEN [kind |-> "throw"]
      ELSE IF Len(parts) = 1
        THEN [package |-> Null, variant |-> Str(parts[1]), variation |-> Null]
      ELSE IF Len(parts) = 2
        THEN [package |-> Null, variant |-> Str(parts[1]),
              variation |-> Str(parts[2])]
      ELSE [package |-> Str(parts[1]), variant |-> Str(parts[2]),
            variation |-> Str(JoinStrings(SubSeq(parts, 3, Len(parts)), DOT))]

\* new Identifier(path); the array that split made is never falsy, so the
\* throw of the constructor is never reached.
Identifier(path) ==
  LET parts == split(path, DOT)
  IN  IF ~Truthy(Arr(parts)) THEN [kind |-> "throw"]
      ELSE IF Len(parts) = 1
        THEN [package |-> Null, variant |-> Str(parts[1]), variation |-> Null]
      ELSE IF Len(parts) = 2
        THEN [package |-> Null, variant |-> Str(parts[1]),
              variation |-> Str(parts[2])]
      ELSE [package |-> Str(parts[1]), variant |-> Str(parts[2]),
            variation |-> Str(parts[3])]

identify(search) == Identifier(search)

\* Identifier.getFullString() that leaves the variation out.
getFullString_NoVariation(id) ==
  join((IF Truthy(id.package) THEN <<id.package>> ELSE <<>>)
         \o <<id.variant>>,
       DOT)

\* Identifier.getFullString()
getFullString(id) ==
  join((IF Truthy(id.package) THEN <<id.package>> ELSE <<>>)
         \o <<id.variant>>
         \o (IF Truthy(id.variation) THEN <<id.variation>> ELSE <<>>),
       DOT)

----------------------------------------------------------------------------
(* Package: variants is a Map<string, Variant>; a Variant is its mapping.   *)
(* Package.search reads that Map (this.children in its text).              *)

\* Package.search(key) that calls compile on what the Map returned without
\* the optional chaining: an unknown variant throws.
Package_search_NoOptionalChain(variants, key) ==
  LET parts == split(key, DOT)
      pkg == Str(parts[1])
      rest == Tail(parts)
  IN  IF MapHas(variants, pkg)
        THEN Variant_compile(MapGet(variants, pkg), Str(JoinStrings(rest, DOT)))
        ELSE [kind |-> "throw"]

\* Package.search(key)
Package_search(variants, key) ==
  LET parts == split(key, DOT)
      pkg == Str(parts[1])
      rest == Tail(parts)
  IN  IF MapHas(variants, pkg)
        THEN Variant_compile(MapGet(variants, pkg), Str(JoinStrings(rest, DOT)))
        ELSE [kind |-> "undefined"]

\* The loop of Package.compile over the entries of variants, from entry i,
\* with the classes pushed so far.  variant.has is not a method of Variant:
\* reaching it throws.
RECURSIVE Package_compile_loop(_, _, _, _)
Package_compile_loop(variants, a, i, classes) ==
  IF i > Len(variants) THEN [kind |-> "string", s |-> JoinStrings(classes, SP)]
  ELSE IF a.t = "object"
    THEN LET selector == MapGet(a.m, Str(variants[i].k))
         IN  IF Truthy(selector)
               THEN Package_compile_loop(variants, a, i + 1,
                      Append(classes,
                        VariantResult_toString(
                          Variant_compile(variants[i].v, selector))))
               ELSE Package_compile_loop(variants, a, i + 1, classes)
    ELSE [kind |-> "throw"]

\* Package.compile(args)
Package_compile(variants, a) == Package_compile_loop(variants, a, 1, <<>>)

----------------------------------------------------------------------------
(* StyleSet: container.children is the sequence of [id, value] that the    *)
(* constructor added, one per key of the object, in insertion order:       *)
(* addChild(key, value) of the container library is taken to add a child   *)
(* whose id is key and whose value is value.                               *)

\* StyleSet.getPackageName(packageContainer): a Package has neither a name
\* nor a key, so the name is the container's id.
getPackageName(packageContainer) == Str(packageContainer.id)

\* StyleSet.findPackageByName(packageName)
findPackageByName(r, packageName) ==
  IF \E i \in 1..Len(r) : getPackageName(r[i]) = packageName
    THEN r[CHOOSE i \in 1..Len(r) :
               /\ getPackageName(r[i]) = packageName
               /\ \A j \in 1..(i - 1) : getPackageName(r[j]) # packageName]
    ELSE Null

\* Array.from(variants.values()).flatMap((v) => v.toString())
AllVariantStrings(variants) ==
  [i \in 1..Len(variants) |-> Str(Variant_toString(variants[i].v))]

\* The loop of StyleSet.search that skips a path whose package is unknown
\* and goes on with the next path.
RECURSIVE StyleSet_search_loop_SkipUnknown(_, _, _, _)
StyleSet_search_loop_SkipUnknown(r, paths, i, variations) ==
  IF i > Len(paths) THEN VariantResult(Arr(variations))
  ELSE
    LET identifiers == identify(paths[i])
        packageContainer == findPackageByName(r, identifiers.package)
    IN  IF packageContainer = Null
          THEN StyleSet_search_loop_SkipUnknown(r, paths, i + 1, variations)
        ELSE IF identifiers.variation = Null
                  \/ identifiers.variation = Str(W("*"))
          THEN StyleSet_search_loop_SkipUnknown(r, paths, i + 1,
                 variations \o AllVariantStrings(packageContainer.value))
        ELSE
          LET variant == Package_search(packageContainer.value,
                                        getFullString(identifiers))
          IN  IF variant.kind = "undefined" THEN [kind |-> "null"]
              ELSE IF variant.kind = "throw" THEN variant
              ELSE StyleSet_search_loop_SkipUnknown(r, paths, i + 1,
                     Append(variations, Str(VariantResult_toString(variant))))

\* The loop of StyleSet.search that puts what a path gives in front of what
\* the earlier paths gave.
RECURSIVE StyleSet_search_loop_Prepend(_, _, _, _)
StyleSet_search_loop_Prepend(r, paths, i, variations) ==
  IF i > Len(paths) THEN VariantResult(Arr(variations))
  ELSE
    LET identifiers == identify(paths[i])
        packageContainer == findPackageByName(r, identifiers.package)
    IN  IF packageContainer = Null THEN [kind |-> "null"]
        ELSE IF identifiers.variation = Null
                  \/ identifiers.variation = Str(W("*"))
          THEN StyleSet_search_loop_Prepend(r, paths, i + 1,
                 AllVariantStrings(packageContainer.value) \o variations)
        ELSE
          LET variant == Package_search(packageContainer.value,
                                        getFullString(identifiers))
          IN  IF variant.kind = "undefined" THEN [kind |-> "null"]
              ELSE IF variant.kind = "throw" THEN variant
              ELSE StyleSet_search_loop_Prepend(r, paths, i + 1,
                     <<Str(VariantResult_toString(variant))>> \o variations)

\* The loop of StyleSet.search without the test of what Package.search
\* returned: toString() is called on undefined, which throws.
RECURSIVE StyleSet_search_loop_NoNullCheck(_, _, _, _)
StyleSet_search_loop_NoNullCheck(r, paths, i, variations) ==
  IF i > Len(paths) THEN VariantResult(Arr(variations))
  ELSE
    LET identifiers == identify(paths[i])
        packageContainer == findPackageByName(r, identifiers.package)
    IN  IF packageContainer = Null THEN [kind |-> "null"]
        ELSE IF identifiers.variation = Null
                  \/ identifiers.variation = Str(W("*"))
          THEN StyleSet_search_loop_NoNullCheck(r, paths, i + 1,
                 variations \o AllVariantStrings(packageContainer.value))
        ELSE
          LET variant == Package_search(packageContainer.value,
                                        getFullString(identifiers))
          IN  IF variant.kind = "undefined" THEN [kind |-> "throw"]
              ELSE IF variant.kind = "throw" THEN variant
              ELSE StyleSet_search_loop_NoNullCheck(r, paths, i + 1,
                     Append(variations, Str(VariantResult_toString(variant))))

\* The loop of StyleSet.search that passes over a path for which the
\* package finds no variant, and keeps what the other paths gave.
RECURSIVE StyleSet_search_loop_SkipUnknownVariant(_, _, _, _)
StyleSet_search_loop_SkipUnknownVariant(r, paths, i, variations) ==
  IF i > Len(paths) THEN VariantResult(Arr(variations))
  ELSE
    LET identifiers == identify(paths[i])
        packageContainer == findPackageByName(r, identifiers.package)
    IN  IF packageContainer = Null THEN [kind |-> "null"]
        ELSE IF identifiers.variation = Null
                  \/ identifiers.variation = Str(W("*"))
          THEN StyleSet_search_loop_SkipUnknownVariant(r, paths, i + 1,
                 variations \o AllVariantStrings(packageContainer.value))
        ELSE
          LET variant == Package_search(packageContainer.value,
                                        getFullString(identifiers))
          IN  IF variant.kind = "undefined"
                THEN StyleSet_search_loop_SkipUnknownVariant(r, paths, i + 1,
                       variations)
              ELSE IF variant.kind = "throw" THEN variant
              ELSE StyleSet_search_loop_SkipUnknownVariant(r, paths, i + 1,
                     Append(variations, Str(VariantResult_toString(variant))))

\* The loop of StyleSet.search over paths, from path i, with the variations
\* pushed so far.  What a callee throws leaves the loop and the call.
RECURSIVE StyleSet_search_loop(_, _, _, _)
StyleSet_search_loop(r, paths, i, variations) ==
  IF i > Len(paths) THEN VariantResult(Arr(variations))
  ELSE
    LET identifiers == identify(paths[i])
        packageContainer == findPackageByName(r, identifiers.package)
    IN  IF packageContainer = Null THEN [kind |-> "null"]
        ELSE IF identifiers.variation = Null
                  \/ identifiers.variation = Str(W("*"))
          THEN StyleSet_search_loop(r, paths, i + 1,
                 variations \o AllVariantStrings(packageContainer.value))
        ELSE
          LET variant == Package_search(packageContainer.value,
                                        getFullString(identifiers))
          IN  IF variant.kind = "undefined" THEN [kind |-> "null"]
              ELSE IF variant.kind = "throw" THEN variant
              ELSE StyleSet_search_loop(r, paths, i + 1,
                     Append(variations, Str(VariantResult_toString(variant))))

\* StyleSet.search(...paths) that has nothing to return without a path.
StyleSet_search_NullWithoutPath(r, paths) ==
  IF Len(paths) = 0 THEN [kind |-> "null"]
  ELSE StyleSet_search_loop(r, paths, 1, <<>>)

\* StyleSet.search(...paths)
StyleSet_search(r, paths) == StyleSet_search_loop(r, paths, 1, <<>>)

----------------------------------------------------------------------------
(* The objects given to the constructors *)

E(k, v) == [k |-> W(k), v |-> v]

P(id, value) == [id |-> W(id), value |-> value]

\* The StyleSet of the class documentation.
RootDoc ==
  << P("packageOne",
       << E("variantA", << E("variation1", Words(<<"a", "b">>)),
                           E("variation2", Str(W("c"))) >>),
          E("variantB", << E("variation2", Str(W("d"))),
                           E("variation3", Words(<<"e">>)) >>) >>),
     P("packageTwo",
       << E("variantZ", << E("variation3", Words(<<"f", "g", "h">>)),
                           E("variation4", Str(W("i"))) >>) >>) >>

\* The package of the package tests, as the package "outline".
RootOutline ==
  << P("outline",
       << E("withDefault", << E("sm", Str(W("small"))),
                              E("default", Str(W("sm"))) >>),
          E("withoutDefault", << E("sm", Str(W("small"))) >>),
          E("arrayWithDefault", << E("sm", Words(<<"small", "medium">>)),
                                   E("default", Str(W("sm"))) >>),
          E("arrayWithoutDefault",
            << E("sm", Words(<<"small", "medium">>)) >>) >>) >>

\* The package of the Package documentation, as the package "box".
RootBox ==
  << P("box",
       << E("padding", << E("sm", Str(W("p-1.5"))), E("md", Str(W("p-4"))),
                          E("lg", Str(W("p-6"))), E("default", Str(W("sm"))) >>),
          E("spacing", << E("sm", Str(W("gap-1.5"))), E("md", Str(W("gap-4"))),
                          E("lg", Str(W("gap-6"))),
                          E("default", Str(W("sm"))) >>) >>) >>

\* The button of the README: values of several tokens, a variant without a
\* default, and a variant that has the name of its package.
RootButton ==
  << P("button",
       << E("size", << E("md", Str(<<"px-4", SP, "py-2">>)),
                       E("lg", Str(<<"px-6", SP, "py-3">>)),
                       E("default", Str(W("md"))) >>),
          E("state", << E("hover", Str(W("hover:scale-105"))),
                        E("focus", Str(W("focus:ring-2"))) >>),
          E("button", << E("md", Str(W("btn"))),
                         E("default", Str(W("md"))) >>) >>),
     P("state",
       << E("state", << E("hover", Words(<<"h1", "h2">>)) >>) >>) >>

ExampleRoots == {RootDoc, RootOutline, RootBox, RootButton}

GenKeys == {W("sm"), W("md"), W("default")}

GenValues ==
  {Str(W("small")), Str(W("sm")), Str(W("default")), Words(<<"a", "b">>)}

\* Every variant mapping of at most MaxKeys entries over GenKeys and
\* GenValues, in every insertion order.
GenVariants ==
  UNION {{m \in [1..n -> [k : GenKeys, v : GenValues]] :
            \A i, j \in 1..n : m[i].k = m[j].k => i = j} : n \in 0..MaxKeys}

\* One package "pkg" holding one generated variant "v".
GenRoots == {<< P("pkg", << [k |-> W("v"), v |-> m] >>) >> : m \in GenVariants}

\* A variant whose default names a key whose value names a further key.
RootChain ==
  << P("chain",
       << E("size", << E("default", Str(W("sm"))), E("sm", Str(W("md"))),
                       E("md", Str(W("p-4"))) >>) >>) >>

Roots == ExampleRoots \cup GenRoots \cup {RootChain}

----------------------------------------------------------------------------
(* The arguments of the calls *)

NOPE == W("nope")
STAR == W("*")

PackageIds(r) == {r[i].id : i \in 1..Len(r)}

PackageOf(r, id) == r[CHOOSE i \in 1..Len(r) : r[i].id = id].value

\* The selectors tried on a variant: its keys, the wildcard, a missing key.
Selectors(variants) == MapKeys(variants) \cup {STAR, NOPE}

Dotted(ss) == JoinStrings(ss, DOT)

\* The paths given to StyleSet.search on r: none, one, two, three and four
\* segments; known and unknown packages, variants and keys.
Paths(r) ==
  {<<>>, NOPE, Dotted(<<NOPE, W("x"), W("y")>>)}
    \cup PackageIds(r)
    \cup UNION {
      LET pkg == PackageOf(r, id)
      IN  {Dotted(<<id, NOPE>>), Dotted(<<id, NOPE, NOPE>>),
           Dotted(<<id, NOPE, STAR>>)}
            \cup UNION {
              {Dotted(<<id, pkg[i].k>>),
               Dotted(<<pkg[i].k, CHOOSE k \in Selectors(pkg[i].v) : TRUE>>),
               Dotted(<<id, pkg[i].k, STAR, W("more")>>)}
                \cup {Dotted(<<id, pkg[i].k, sel>>) : sel \in Selectors(pkg[i].v)}
              : i \in 1..Len(pkg)}
      : id \in PackageIds(r)}

\* The paths that the calls with several paths are made of: per variant the
\* wildcard, the first key and the two-segment path, per package an unknown
\* variant, and an unknown package.
ListPaths(r) ==
  {Dotted(<<NOPE, W("x"), W("y")>>)}
    \cup UNION {
      LET pkg == PackageOf(r, id)
      IN  {Dotted(<<id, NOPE, NOPE>>)}
            \cup UNION {
              {Dotted(<<id, pkg[i].k>>), Dotted(<<id, pkg[i].k, STAR>>)}
                \cup {Dotted(<<id, pkg[i].k, pkg[i].v[j].k>>) :
                        j \in 1..(IF Len(pkg[i].v) = 0 THEN 0 ELSE 1)}
              : i \in 1..Len(pkg)}
      : id \in PackageIds(r)}

\* The lists of paths of the calls: no path, any one path, and up to
\* MaxPaths of the paths above.
PathLists(r) ==
  {<<>>} \cup {<<p>> : p \in Paths(r)}
    \cup UNION {[1..n -> ListPaths(r)] : n \in 2..MaxPaths}

\* The keys given to Package.search on a package.
PackageKeys(variants) ==
  {<<>>, NOPE, Dotted(<<NOPE, STAR>>)}
    \cup UNION {
      {variants[i].k, Dotted(<<variants[i].k, NOPE, W("more")>>)}
        \cup {Dotted(<<variants[i].k, sel>>) : sel \in Selectors(variants[i].v)}
      : i \in 1..Len(variants)}

\* The args given to Package.compile on a package: undefined, or an object
\* that gives some of the variants a selector.
NoArg == W("-")

ArgObject(variants, f) ==
  [t |-> "object",
   m |-> SelectSeq([i \in 1..Len(variants) |->
                      [k |-> variants[i].k, v |-> Str(f[i])]],
                   LAMBDA e : e.v.s # NoArg)]

CompileArgs(variants) ==
  {Undefined}
    \cup {ArgObject(variants, f) :
            f \in {g \in [1..Len(variants) ->
                           UNION {MapKeys(variants[i].v) : i \in 1..Len(variants)}
                             \cup {NOPE, NoArg, <<>>}] :
                     \A i \in 1..Len(variants) :
                        g[i] \in MapKeys(variants[i].v) \cup {NOPE, NoArg, <<>>}}}

\* The keys given to Variant.compile on a variant.
CompileKeys(variants) ==
  {Undefined} \cup {Str(sel) : sel \in Selectors(variants)}

----------------------------------------------------------------------------
(* The state machine: a constructed StyleSet and the calls made on it, one  *)
(* at a time: op is "idle" between calls, and after a call op, args and      *)
(* result hold the call, its arguments and what it returned, until the       *)
(* caller drops the result                                                   *)

NoResult == [kind |-> "none"]

Init ==
  /\ root \in Roots
  /\ op = "idle"
  /\ args = <<>>
  /\ result = NoResult

\* styleset.search(...paths)
CallStyleSetSearch ==
  \E paths \in PathLists(root) :
    /\ op = "idle"
    /\ op' = "StyleSet.search"
    /\ args' = paths
    /\ result' = StyleSet_search(root, paths)
    /\ UNCHANGED root

\* package.search(key) on the package at index p
CallPackageSearch ==
  \E p \in 1..Len(root) : \E key \in PackageKeys(root[p].value) :
    /\ op = "idle"
    /\ op' = "Package.search"
    /\ args' = <<p, key>>
    /\ result' = Package_search(root[p].value, key)
    /\ UNCHANGED root

\* package.compile(args) on the package at index p
CallPackageCompile ==
  \E p \in 1..Len(root) : \E a \in CompileArgs(root[p].value) :
    /\ op = "idle"
    /\ op' = "Package.compile"
    /\ args' = <<p, a>>
    /\ result' = Package_compile(root[p].value, a)
    /\ UNCHANGED root

\* variant.compile(key) that keeps what it resolved for a key the variant
\* does not have, under that key.
CallVariantCompile_Memoise ==
  \E p \in 1..Len(root) : \E v \in 1..Len(root[p].value) :
    \E key \in CompileKeys(root[p].value[v].v) :
      /\ op = "idle"
      /\ op' = "Variant.compile"
      /\ args' = <<p, v, key>>
      /\ result' = Variant_compile(root[p].value[v].v, key)
      /\ root' = IF IsStr(key) /\ ~MapHas(root[p].value[v].v, key)
                   THEN [root EXCEPT ![p].value[v].v =
                           Append(@, [k |-> key.s, v |-> Arr(result'.value)])]
                   ELSE root

\* variant.compile(key) on the variant at index v of the package at index p
CallVariantCompile ==
  \E p \in 1..Len(root) : \E v \in 1..Len(root[p].value) :
    \E key \in CompileKeys(root[p].value[v].v) :
      /\ op = "idle"
      /\ op' = "Variant.compile"
      /\ args' = <<p, v, key>>
      /\ result' = Variant_compile(root[p].value[v].v, key)
      /\ UNCHANGED root

\* The caller is done with the result.
Discard ==
  /\ op # "idle"
  /\ op' = "idle"
  /\ args' = <<>>
  /\ result' = NoResult
  /\ UNCHANGED root

Next ==
  \/ CallStyleSetSearch
  \/ CallPackageSearch
  \/ CallPackageCompile
  \/ CallVariantCompile
  \/ Discard

Spec == Init /\ [][Next]_vars

----------------------------------------------------------------------------
(* identify and Identifier.getFullString, used on their own: the paths are  *)
(* parsed without any mapping being read                                    *)

\* The segments of the paths given to identify; the first is the empty one.
IdSegments == {<<>>, W("a"), W("b"), W("c")}

\* The paths given to identify: 1 to MaxSegs segments joined by dots.
IdPaths == UNION {{Dotted(ss) : ss \in [1..n -> IdSegments]} : n \in 1..MaxSegs}

\* No mapping is defined: the StyleSet is the empty one.
InitId ==
  /\ root = <<>>
  /\ op = "idle"
  /\ args = <<>>
  /\ result = NoResult

\* identify(path)
CallIdentify ==
  \E path \in IdPaths :
    /\ op = "idle"
    /\ op' = "identify"
    /\ args' = <<path>>
    /\ result' = IF identify(path) = [kind |-> "throw"]
                   THEN [kind |-> "throw"]
                   ELSE [kind |-> "Identifier", id |-> identify(path)]
    /\ UNCHANGED root

\* getFullString() on the Identifier that identify returned
CallGetFullString ==
  /\ op = "identify"
  /\ result.kind = "Identifier"
  /\ op' = "getFullString"
  /\ result' = [kind |-> "string", s |-> getFullString(result.id)]
  /\ UNCHANGED <<root, args>>

NextId ==
  \/ CallIdentify
  \/ CallGetFullString
  \/ Discard

SpecId == InitId /\ [][NextId]_vars

----------------------------------------------------------------------------
(* The caller and the array of a result: value is a public field, and the   *)
(* constructor of VariantResult keeps the array it is given                 *)

\* The key under which the variant stores the array that the result of
\* compile(key) has as its value, or Null when the constructor wrapped what
\* it was given in an array of its own.
Variant_compile_shared(variants, key) ==
  LET got(k) == IF IsArr(MapGet(variants, k)) THEN k ELSE Null
  IN  IF MapHas(variants, DEFAULT) /\ IsStr(MapGet(variants, DEFAULT))
        THEN IF MapHas(variants, MapGet(variants, DEFAULT))
               THEN got(MapGet(variants, DEFAULT))
               ELSE Null
        ELSE got(key)

\* The index of the entry of key in the Map m.
MapIndex(m, key) == CHOOSE i \in 1..Len(m) : m[i].k = key.s

\* Where the array of the result in hand is stored: package, variant and
\* entry of the variant; Null when no Map holds it.  StyleSet.search returns
\* the array that flatMap made, and Package.compile a string.
SharedAt ==
  IF op = "Variant.compile"
    THEN LET variants == root[args[1]].value[args[2]].v
             k == Variant_compile_shared(variants, args[3])
         IN  IF k = Null THEN Null
             ELSE [p |-> args[1], v |-> args[2], e |-> MapIndex(variants, k)]
  ELSE IF op = "Package.search"
    THEN LET parts == split(args[2], DOT)
             pkg == Str(parts[1])
             m == root[args[1]].value
         IN  IF ~MapHas(m, pkg) THEN Null
             ELSE LET k == Variant_compile_shared(
                             MapGet(m, pkg), Str(JoinStrings(Tail(parts), DOT)))
                  IN  IF k = Null THEN Null
                      ELSE [p |-> args[1], v |-> MapIndex(m, pkg),
                            e |-> MapIndex(MapGet(m, pkg), k)]
  ELSE Null

\* The token that the caller pushes.
PUSHED == Str(W("pushed"))

\* result.value.push("pushed") by the caller that holds a result: the array
\* changes, and with it the value of the variant when the array is shared.
CallerPush ==
  /\ op \in {"Variant.compile", "Package.search", "StyleSet.search"}
  /\ result.kind = "VariantResult"
  /\ \A i \in 1..Len(result.value) : result.value[i] # PUSHED
  /\ result' = [result EXCEPT !.value = Append(@, PUSHED)]
  /\ root' = IF SharedAt = Null THEN root
             ELSE [root EXCEPT
                     ![SharedAt.p].value[SharedAt.v].v[SharedAt.e].v.a =
                       Append(@, PUSHED)]
  /\ UNCHANGED <<op, args>>

NextAlias ==
  \/ Next
  \/ CallerPush

SpecAlias == Init /\ [][NextAlias]_vars

----------------------------------------------------------------------------
(* validate: the props of a component against a schema of fields            *)

Bool(b) == [t |-> "bool", b |-> b]
Num(n) == [t |-> "num", n |-> n]
Obj(m) == [t |-> "object", m |-> m]

\* typeof x
typeof(x) ==
  IF x.t = "str" THEN "string"
  ELSE IF x.t = "bool" THEN "boolean"
  ELSE IF x.t = "num" THEN "number"
  ELSE IF x.t = "undefined" THEN "undefined"
  ELSE "object"

QUOTE == "\""

\* format(values)
format(values) ==
  IF ~Truthy(values) THEN W("any")
  ELSE IF values = Str(W("boolean")) THEN W("boolean")
  ELSE IF values = Str(W("string")) THEN W("string")
  ELSE IF values = Str(W("number")) THEN W("number")
  ELSE IF IsArr(values) THEN join(values.a, " | ")
  ELSE values.s

\* evaluate_AnyOfList(value, values) that takes any value for a list of literals.
evaluate_AnyOfList(value, values) ==
  IF ~Truthy(values) THEN TRUE
  ELSE IF values = Str(W("boolean")) THEN typeof(value) = "boolean"
  ELSE IF values = Str(W("string")) THEN typeof(value) = "string"
  ELSE IF values = Str(W("number")) THEN typeof(value) = "number"
  ELSE IF IsArr(values) THEN TRUE
  ELSE IF typeof(values) = "string" THEN value = values
  ELSE FALSE

\* evaluate(value, values)
evaluate(value, values) ==
  IF ~Truthy(values) THEN TRUE
  ELSE IF values = Str(W("boolean")) THEN typeof(value) = "boolean"
  ELSE IF values = Str(W("string")) THEN typeof(value) = "string"
  ELSE IF values = Str(W("number")) THEN typeof(value) = "number"
  ELSE IF IsArr(values) THEN \E i \in 1..Len(values.a) : values.a[i] = value
  ELSE IF typeof(values) = "string" THEN value = values
  ELSE FALSE

\* The members of new Set(names), in insertion order.
RECURSIVE SetOf(_)
SetOf(names) ==
  IF Len(names) = 0 THEN <<>>
  ELSE LET front == SetOf(SubSeq(names, 1, Len(names) - 1))
           last == names[Len(names)]
       IN  IF \E i \in 1..Len(front) : front[i] = last
             THEN front ELSE Append(front, last)

\* The first loop of validate that takes a field for missing when the props
\* have no key of its name, whatever the value of the key.
RECURSIVE validate_fields_KeyPresence(_, _, _, _, _)
validate_fields_KeyPresence(fields, propObj, componentName, i, errors) ==
  IF i > Len(fields) THEN errors
  ELSE
    LET record == fields[i]
        value == MapGet(propObj, Str(record.name))
    IN  IF record.required.t = "bool" /\ record.required.b
           /\ ~MapHas(propObj, Str(record.name))
          THEN validate_fields_KeyPresence(fields, propObj, componentName, i + 1,
                 Append(errors,
                   [property |-> record.name,
                    message |->
                      <<"Required property ", QUOTE>> \o record.name
                        \o <<QUOTE, " is missing">>
                        \o (IF Truthy(componentName)
                              THEN <<" in component ">> \o componentName.s
                              ELSE <<>>),
                    expectedType |-> format(record.values),
                    actualValue |-> Undefined]))
        ELSE IF value # Undefined /\ ~evaluate(value, record.values)
          THEN validate_fields_KeyPresence(fields, propObj, componentName, i + 1,
                 Append(errors,
                   [property |-> record.name,
                    message |->
                      <<"Invalid value for property ", QUOTE>>
                        \o record.name \o <<QUOTE>>,
                    expectedType |-> format(record.values),
                    actualValue |-> value]))
        ELSE validate_fields_KeyPresence(fields, propObj, componentName, i + 1, errors)

\* The first loop of validate: over the fields of the schema from field i,
\* with the errors pushed so far.
RECURSIVE validate_fields(_, _, _, _, _)
validate_fields(fields, propObj, componentName, i, errors) ==
  IF i > Len(fields) THEN errors
  ELSE
    LET record == fields[i]
        value == MapGet(propObj, Str(record.name))
    IN  IF record.required.t = "bool" /\ record.required.b
           /\ value = Undefined
          THEN validate_fields(fields, propObj, componentName, i + 1,
                 Append(errors,
                   [property |-> record.name,
                    message |->
                      <<"Required property ", QUOTE>> \o record.name
                        \o <<QUOTE, " is missing">>
                        \o (IF Truthy(componentName)
                              THEN <<" in component ">> \o componentName.s
                              ELSE <<>>),
                    expectedType |-> format(record.values),
                    actualValue |-> Undefined]))
        ELSE IF value # Undefined /\ ~evaluate(value, record.values)
          THEN validate_fields(fields, propObj, componentName, i + 1,
                 Append(errors,
                   [property |-> record.name,
                    message |->
                      <<"Invalid value for property ", QUOTE>>
                        \o record.name \o <<QUOTE>>,
                    expectedType |-> format(record.values),
                    actualValue |-> value]))
        ELSE validate_fields(fields, propObj, componentName, i + 1, errors)

\* The second loop of validate that passes over the keys whose value is
\* undefined.
RECURSIVE validate_keys_SkipUndefined(_, _, _, _)
validate_keys_SkipUndefined(allowedProps, propObj, i, errors) ==
  IF i > Len(propObj) THEN errors
  ELSE
    LET key == propObj[i].k
    IN  IF /\ propObj[i].v # Undefined
           /\ ~\E j \in 1..Len(allowedProps) : allowedProps[j] = key
          THEN validate_keys_SkipUndefined(allowedProps, propObj, i + 1,
                 Append(errors,
                   [property |-> key,
                    message |->
                      <<"Unknown property ", QUOTE>> \o key
                        \o <<QUOTE, " is not allowed">>,
                    expectedType |->
                      <<"One of: ">> \o JoinStrings(allowedProps, ", "),
                    actualValue |-> MapGet(propObj, Str(key))]))
        ELSE validate_keys_SkipUndefined(allowedProps, propObj, i + 1, errors)

\* The second loop of validate: over the keys of the props from key i.
RECURSIVE validate_keys(_, _, _, _)
validate_keys(allowedProps, propObj, i, errors) ==
  IF i > Len(propObj) THEN errors
  ELSE
    LET key == propObj[i].k
    IN  IF ~\E j \in 1..Len(allowedProps) : allowedProps[j] = key
          THEN validate_keys(allowedProps, propObj, i + 1,
                 Append(errors,
                   [property |-> key,
                    message |->
                      <<"Unknown property ", QUOTE>> \o key
                        \o <<QUOTE, " is not allowed">>,
                    expectedType |->
                      <<"One of: ">> \o JoinStrings(allowedProps, ", "),
                    actualValue |-> MapGet(propObj, Str(key))]))
        ELSE validate_keys(allowedProps, propObj, i + 1, errors)

\* validate(schema, props, componentName) without the test for null: null
\* has the type "object", and reading a property of it throws.
validate_NullIsObject(schema, props, componentName) ==
  IF props = Null /\ Len(schema.fields) > 0 THEN [kind |-> "throw"]
  ELSE IF typeof(props) # "object"
    THEN [kind |-> "ValidationResult", isValid |-> FALSE,
          errors |-> << [property |-> W("root"),
                         message |-> W("Props must be an object"),
                         expectedType |-> W("object"),
                         actualValue |-> props] >>]
  ELSE
    LET propObj == IF props = Null THEN <<>> ELSE props.m
        allowedProps == SetOf([i \in 1..Len(schema.fields) |->
                                 schema.fields[i].name])
        errors == validate_keys(allowedProps, propObj, 1,
                    validate_fields(schema.fields, propObj, componentName,
                                    1, <<>>))
    IN  [kind |-> "ValidationResult", isValid |-> Len(errors) = 0,
         errors |-> errors]

\* validate(schema, props, componentName)
validate(schema, props, componentName) ==
  IF typeof(props) # "object" \/ props = Null
    THEN [kind |-> "ValidationResult", isValid |-> FALSE,
          errors |-> << [property |-> W("root"),
                         message |-> W("Props must be an object"),
                         expectedType |-> W("object"),
                         actualValue |-> props] >>]
  ELSE
    LET propObj == props.m
        allowedProps == SetOf([i \in 1..Len(schema.fields) |->
                                 schema.fields[i].name])
        errors == validate_keys(allowedProps, propObj, 1,
                    validate_fields(schema.fields, propObj, componentName,
                                    1, <<>>))
    IN  [kind |-> "ValidationResult", isValid |-> Len(errors) = 0,
         errors |-> errors]

\* The most keys of the props given to validate.
MaxProps == 2

\* The names of the fields of the schemas, and the keys of the props: the
\* field names and a key that no schema has.
FieldNames == {W("variant"), W("size")}
PropKeys == FieldNames \cup {W("unknownProp")}

\* The constraints of a field: none, the three type names, one literal and
\* a list of literals.
FieldValues ==
  {Undefined, Str(W("boolean")), Str(W("string")), Str(W("number")),
   Str(W("primary")), Words(<<"primary", "secondary">>)}

\* The schemas: every list of fields of distinct names.
Schemas ==
  UNION {{[fields |-> f] :
            f \in {g \in [1..n -> [name : FieldNames, values : FieldValues,
                                   required : {Bool(TRUE), Bool(FALSE)}]] :
                     \A i, j \in 1..n : g[i].name = g[j].name => i = j}}
         : n \in 0..Cardinality(FieldNames)}

\* The values of the keys of the props.
PropValues ==
  {Undefined, Null, Str(W("primary")), Str(W("invalid")), Bool(TRUE), Num(1)}

\* The props: null, undefined, the primitives, and the objects of at most
\* MaxProps keys, in every insertion order.
Props ==
  {Null, Undefined, Str(W("primary")), Bool(TRUE), Num(1)}
    \cup UNION {{Obj(m) :
                   m \in {g \in [1..n -> [k : PropKeys, v : PropValues]] :
                            \A i, j \in 1..n : g[i].k = g[j].k => i = j}}
                : n \in 0..MaxProps}

ComponentNames == {Undefined, Str(W("Button"))}

\* validate(schema, props, componentName)
CallValidate ==
  /\ op = "idle"
  /\ \E schema \in Schemas : \E props \in Props :
       \E componentName \in ComponentNames :
         /\ op' = "validate"
         /\ args' = <<schema, props, componentName>>
         /\ result' = validate(schema, props, componentName)
  /\ UNCHANGED root

NextValidate ==
  \/ CallValidate
  \/ Discard

SpecValidate == InitId /\ [][NextValidate]_vars

----------------------------------------------------------------------------
(* What the claims speak of *)

\* The tokens of a value: the strings of an array, or the one string.
ValueTokens(v) == IF IsArr(v) THEN v.a ELSE <<v>>

\* The tokens of a value joined by single spaces.
ValueString(v) == join(ValueTokens(v), SP)

\* Every value of a variant, in insertion order, arrays flattened.
RECURSIVE AllTokens(_)
AllTokens(variants) ==
  IF Len(variants) = 0 THEN <<>>
  ELSE ValueTokens(variants[1].v) \o AllTokens(Tail(variants))

HasDefault(variants) == W("default") \in MapKeys(variants)

DefaultValue(variants) == MapGet(variants, DEFAULT)

\* The default names a key of the variant.
DefaultNamesKey(variants) ==
  /\ HasDefault(variants)
  /\ IsStr(DefaultValue(variants))
  /\ DefaultValue(variants).s \in MapKeys(variants)

\* The value the default designates: the value of the key it names, or its
\* own value.
DefaultDesignates(variants) ==
  IF DefaultNamesKey(variants)
    THEN MapGet(variants, DefaultValue(variants))
    ELSE DefaultValue(variants)

IsResult(r) == r.kind = "VariantResult"

\* The words of a string: its non-empty pieces between spaces.
StringWords(s) == SelectSeq(split(s, SP), LAMBDA w : w # <<>>)

\* The state is the return of StyleSet.search called with one path.
SearchedOne == op = "StyleSet.search" /\ Len(args) = 1

\* The segments of that path.
Segs == split(args[1], DOT)

\* The path is P.V.K (or P.V when n = 2) with P a package of the root and V
\* a variant of P.
KnownVariantPath(n) ==
  /\ SearchedOne
  /\ Len(Segs) = n
  /\ Segs[1] \in PackageIds(root)
  /\ Segs[2] \in MapKeys(PackageOf(root, Segs[1]))

\* The variant that path names.
PathVariant == MapGet(PackageOf(root, Segs[1]), Str(Segs[2]))

\* The state is the return of Variant.compile; its variant and its key.
CompiledVariant == op = "Variant.compile"

TheVariant == root[args[1]].value[args[2]].v

TheKey == args[3]

\* C1: StyleSet.search with one path P.V.K, K a key of V other than
\* "default" and "*", returns a result whose toString() is the tokens of
\* V[K] joined by single spaces.
C1_SearchKey ==
  (/\ KnownVariantPath(3)
   /\ Segs[3] \in MapKeys(PathVariant) \ {W("default"), STAR})
    => /\ IsResult(result)
       /\ VariantResult_toString(result)
            = ValueString(MapGet(PathVariant, Str(Segs[3])))

\* C2: Variant.compile with a selector that is a key of the variant and is
\* not "*" returns the value of that key, whatever the default.
C2_SelectorFirst ==
  (/\ CompiledVariant
   /\ IsStr(TheKey)
   /\ TheKey.s \in MapKeys(TheVariant) \ {STAR})
    => result = VariantResult(MapGet(TheVariant, TheKey))

\* C3: when the default names a key of the variant, Variant.compile with no
\* selector returns what Variant.compile with that key returns: the value of
\* that key.
C3_DefaultNamesKey ==
  (/\ CompiledVariant
   /\ TheKey = Undefined
   /\ DefaultNamesKey(TheVariant))
    => /\ result = Variant_compile(TheVariant, DefaultValue(TheVariant))
       /\ result.value
            = ValueTokens(MapGet(TheVariant, DefaultValue(TheVariant)))

C3_Witness ==
  /\ CompiledVariant
  /\ TheKey = Undefined
  /\ TheVariant = << E("sm", Str(W("small"))), E("default", Str(W("sm"))) >>
  /\ VariantResult_toString(result) = W("small")

\* C4: when the default's value is not a key of the variant, Variant.compile
\* with no selector returns that value literally, a string or an array.
C4_DefaultLiteral ==
  (/\ CompiledVariant
   /\ TheKey = Undefined
   /\ HasDefault(TheVariant)
   /\ ~DefaultNamesKey(TheVariant))
    => result = VariantResult(DefaultValue(TheVariant))

\* C5: the wildcard selector gives every value of the variant in insertion
\* order, arrays flattened, the default entry's own value included, through
\* Variant.compile("*") and through Package.search("V.*").
C5_Wildcard ==
  /\ (CompiledVariant /\ TheKey = Str(STAR))
       => /\ IsResult(result)
          /\ result.value = AllTokens(TheVariant)
  /\ (/\ op = "Package.search"
      /\ Len(split(args[2], DOT)) = 2
      /\ split(args[2], DOT)[2] = STAR
      /\ split(args[2], DOT)[1] \in MapKeys(root[args[1]].value))
       => /\ IsResult(result)
          /\ VariantResult_toString(result)
               = join(AllTokens(MapGet(root[args[1]].value,
                                       Str(split(args[2], DOT)[1]))), SP)

\* C6: StyleSet.search with one path P.V.* returns the values of V alone,
\* flattened, in insertion order.
C6_WildcardOneVariant ==
  (KnownVariantPath(3) /\ Segs[3] = STAR)
    => /\ IsResult(result)
       /\ VariantResult_toString(result) = join(AllTokens(PathVariant), SP)

\* The path names a package that the root does not have.
NamesUnknownPackage(path) ==
  /\ Len(split(path, DOT)) >= 3
  /\ split(path, DOT)[1] \notin PackageIds(root)

ResultWords(r) == StringWords(VariantResult_toString(r))

\* What StyleSet.search returns for the one path.
Alone(path) == StyleSet_search(root, <<path>>)

\* C7: StyleSet.search returns null for the whole call when one of its paths,
\* at any position, names a package that the root does not have.
C7_UnknownPackageAborts ==
  (/\ op = "StyleSet.search"
   /\ \E i \in 1..Len(args) : NamesUnknownPackage(args[i]))
    => result = [kind |-> "null"]

C7_Witness ==
  /\ op = "StyleSet.search"
  /\ Len(args) = 2
  /\ IsResult(Alone(args[1]))
  /\ Len(ResultWords(Alone(args[1]))) > 0
  /\ NamesUnknownPackage(args[2])
  /\ result = [kind |-> "null"]

RECURSIVE Concat(_)
Concat(ss) == IF Len(ss) = 0 THEN <<>> ELSE ss[1] \o Concat(Tail(ss))

RECURSIVE IsSubseq(_, _)
IsSubseq(a, b) ==
  IF Len(a) = 0 THEN TRUE
  ELSE IF Len(b) = 0 THEN FALSE
  ELSE IF a[1] = b[1] THEN IsSubseq(Tail(a), Tail(b))
  ELSE IsSubseq(a, Tail(b))

\* The words of every value of every variant of a package, in insertion
\* order.
PackageWords(variants) ==
  Concat([i \in 1..Len(variants) |->
            StringWords(join(AllTokens(variants[i].v), SP))])

\* C8: when every path resolves, the result of search(p1, ..., pn) is the
\* concatenation, in argument order, of the results of search(p1), ...,
\* search(pn), and the words one path gives are in the insertion order of
\* the package's mapping.
C8_ArgumentOrder ==
  (/\ op = "StyleSet.search"
   /\ \A i \in 1..Len(args) : IsResult(Alone(args[i])))
    => /\ IsResult(result)
       /\ result.value = Concat([i \in 1..Len(args) |-> Alone(args[i]).value])
       /\ ResultWords(result)
            = Concat([i \in 1..Len(args) |-> ResultWords(Alone(args[i]))])
       /\ \A i \in 1..Len(args) :
            IsSubseq(ResultWords(Alone(args[i])),
                     PackageWords(PackageOf(root, split(args[i], DOT)[1])))

C8_Witness ==
  /\ op = "StyleSet.search"
  /\ Len(args) = 2
  /\ IsResult(Alone(args[1]))
  /\ IsResult(Alone(args[2]))
  /\ Len(ResultWords(Alone(args[1]))) > 1
  /\ Len(ResultWords(Alone(args[2]))) > 1
  /\ ResultWords(Alone(args[1])) # ResultWords(Alone(args[2]))
  /\ ResultWords(result)
       = ResultWords(Alone(args[1])) \o ResultWords(Alone(args[2]))

\* C9: StyleSet.search with one path P.V returns the value the default of V
\* designates, or a result whose toString() is "" when V has no default.
C9_TwoSegmentDefault ==
  KnownVariantPath(2)
    => /\ IsResult(result)
       /\ VariantResult_toString(result)
            = (IF HasDefault(PathVariant)
                 THEN ValueString(DefaultDesignates(PathVariant))
                 ELSE <<>>)

\* The state is the return of Package.compile; its package and its args.
CompiledPackage == op = "Package.compile"

ThePackage == root[args[1]].value

TheArgs == args[2]

Named(a, k) == a.t = "object" /\ MapHas(a.m, Str(k))

\* What one variant adds to the compiled string: what its selector compiles
\* to when args names it, else what its default designates, if it has one.
Contribution(e, a) ==
  IF Named(a, e.k)
    THEN IF Truthy(MapGet(a.m, Str(e.k)))
           THEN <<VariantResult_toString(
                    Variant_compile(e.v, MapGet(a.m, Str(e.k))))>>
           ELSE <<>>
  ELSE IF HasDefault(e.v) THEN <<ValueString(DefaultDesignates(e.v))>>
  ELSE <<>>

\* C10: Package.compile(args) uses, for every variant that args does not
\* name, the variant's own default, when args is omitted and when args is
\* given but lacks the variant.
C10_UnnamedUseDefault ==
  CompiledPackage
    => /\ result.kind = "string"
       /\ result.s
            = JoinStrings(
                Concat([i \in 1..Len(ThePackage) |->
                          Contribution(ThePackage[i], TheArgs)]), SP)

\* The args object maps each variant it names to a key of that variant.
NamesPresentKeys(variants, a) ==
  /\ a.t = "object"
  /\ \A i \in 1..Len(variants) :
       Named(a, variants[i].k)
         => MapGet(a.m, Str(variants[i].k)).s \in MapKeys(variants[i].v)

\* The value args selects in one variant, as a string, for the variants
\* that args names.
Selected(e, a) ==
  IF Named(a, e.k)
    THEN <<ValueString(MapGet(e.v, MapGet(a.m, Str(e.k))))>>
    ELSE <<>>

\* C11: when args maps some variant names each to a key of that variant,
\* Package.compile(args) is the tokens of V[args[V]] of the named variants,
\* flattened, joined by single spaces, in declaration order; the variants
\* that args does not name add nothing.
C11_NamedOnly ==
  (CompiledPackage /\ NamesPresentKeys(ThePackage, TheArgs))
    => /\ result.kind = "string"
       /\ result.s
            = JoinStrings(
                Concat([i \in 1..Len(ThePackage) |->
                          Selected(ThePackage[i], TheArgs)]), SP)

\* A string without a leading, a trailing or a doubled space.
WellSpaced(s) == s = <<>> \/ \A i \in 1..Len(split(s, SP)) : split(s, SP)[i] # <<>>

\* The selection of the variant resolves to nothing: args names it with a
\* selector that is no key of it, and it has no default.
ResolvesToNothing(e, a) ==
  /\ Named(a, e.k)
  /\ ~MapHas(e.v, MapGet(a.m, Str(e.k)))
  /\ ~HasDefault(e.v)

\* What one variant adds when the variants that resolve to nothing are left
\* out.
Resolved(e, a) ==
  IF Named(a, e.k) /\ Truthy(MapGet(a.m, Str(e.k))) /\ ~ResolvesToNothing(e, a)
    THEN <<VariantResult_toString(Variant_compile(e.v, MapGet(a.m, Str(e.k))))>>
    ELSE <<>>

\* C12: Package.compile leaves out every variant whose selection resolves to
\* nothing: the string holds the tokens of the variants that resolved, with
\* no leading, trailing or doubled space.
C12_SkipsEmpty ==
  (CompiledPackage /\ TheArgs.t = "object")
    => /\ result.kind = "string"
       /\ WellSpaced(result.s)
       /\ result.s
            = JoinStrings(
                Concat([i \in 1..Len(ThePackage) |->
                          Resolved(ThePackage[i], TheArgs)]), SP)

\* The selector is absent, or is neither the wildcard nor a key of the
\* variant.
MissingSelector(variants, key) ==
  \/ key = Undefined
  \/ IsStr(key) /\ key.s # STAR /\ key.s \notin MapKeys(variants)

\* The state is the return of Package.search with a key of n segments whose
\* first names a variant of the package.
SearchedPackage(n) ==
  /\ op = "Package.search"
  /\ Len(split(args[2], DOT)) = n
  /\ split(args[2], DOT)[1] \in MapKeys(root[args[1]].value)

\* The variant that key names.
KeyVariant == MapGet(root[args[1]].value, Str(split(args[2], DOT)[1]))

\* C13: a variant without default resolved with an absent selector, or with
\* a selector that is neither "*" nor one of its keys, gives an empty result:
\* toString() is "" and length is 0, through Variant.compile and through
\* Package.search.
C13_EmptyResult ==
  /\ (/\ CompiledVariant
      /\ ~HasDefault(TheVariant)
      /\ MissingSelector(TheVariant, TheKey))
       => /\ IsResult(result)
          /\ VariantResult_toString(result) = <<>>
          /\ VariantResult_length(result) = 0
  /\ (/\ SearchedPackage(2)
      /\ ~HasDefault(KeyVariant)
      /\ MissingSelector(KeyVariant, Str(split(args[2], DOT)[2])))
       => /\ IsResult(result)
          /\ VariantResult_toString(result) = <<>>
          /\ VariantResult_length(result) = 0

\* C14: Package.search with the name of a variant alone gives what the
\* wildcard gives: every value of the variant in insertion order, flattened,
\* the default entry's own value included.
C14_NameAloneIsWildcard ==
  SearchedPackage(1)
    => /\ IsResult(result)
       /\ VariantResult_toString(result) = join(AllTokens(KeyVariant), SP)
       /\ result
            = Package_search(root[args[1]].value,
                             Dotted(<<split(args[2], DOT)[1], STAR>>))

\* The result is empty, null or undefined.
EmptyOrNone(r) ==
  \/ r.kind \in {"undefined", "null"}
  \/ IsResult(r) /\ VariantResult_toString(r) = <<>>

StoredTokens(r) ==
  UNION {UNION {{AllTokens(r[p].value[i].v)[j] :
                   j \in 1..Len(AllTokens(r[p].value[i].v))}
                : i \in 1..Len(r[p].value)}
         : p \in 1..Len(r)}

\* C17: the value of every result of Variant.compile, Package.search and
\* StyleSet.search is a list of tokens of the stored values, toString() is
\* these tokens separated by one space each, and length is their number
\* (0 for an empty result).
C17_TokensAndLength ==
  (/\ op \in {"Variant.compile", "Package.search", "StyleSet.search"}
   /\ IsResult(result))
    => /\ \A i \in 1..Len(result.value) : result.value[i] \in StoredTokens(root)
       /\ VariantResult_toString(result) = JoinStrings(ResultWords(result), SP)
       /\ VariantResult_length(result) = Len(ResultWords(result))

\* The segments of the path that identify was called with.
IdParts == split(args[1], DOT)

WellFormed(path) ==
  /\ Len(split(path, DOT)) \in 1..3
  /\ \A i \in 1..Len(split(path, DOT)) : split(path, DOT)[i] # <<>>

\* C19: for a path of one, two or three segments, none empty, the full
\* string of the Identifier that identify made of it is the path.
C19_RoundTrip ==
  (op = "getFullString" /\ WellFormed(args[1])) => result.s = args[1]

C19_Witness ==
  /\ op = "getFullString"
  /\ args[1] = Dotted(<<W("a"), W("b"), W("c")>>)
  /\ result.s = args[1]

\* C20: no call of StyleSet.search, Package.search, Package.compile or
\* Variant.compile, whatever its arguments and whatever calls came before,
\* changes the packages of the root, the variants of a package or the
\* entries of a variant; neither does dropping a result.
C20_CallsKeepMappings == [][root' = root]_vars

\* A call has returned: a lookup that missed, made on the documented
\* mappings.
C20_Witness ==
  /\ root = RootDoc
  /\ op = "Variant.compile"
  /\ args[3] = Str(NOPE)
  /\ result # NoResult

\* C21: a result shares no array with the stored values: whatever the
\* caller pushes onto the value of a result it holds, no stored value holds
\* the pushed token, so that every later call returns what it returned
\* before.
C21_FreshResults == Str(W("pushed")) \notin StoredTokens(root)

\* The state is the return of validate called with props that are an
\* object.
ValidatedObject == op = "validate" /\ args[2].t = "object"

TheFields == args[1].fields

\* The value of the key name in the props; undefined without the key.
PropOf(name) == MapGet(args[2].m, Str(name))

\* The errors of the result whose property is name.
ErrorsOf(name) == SelectSeq(result.errors, LAMBDA e : e.property = name)

\* The string s begins with the string prefix.
BeginsWith(s, prefix) ==
  Len(s) >= Len(prefix) /\ SubSeq(s, 1, Len(prefix)) = prefix

\* C22: for props that are an object, every required field of the schema
\* whose value in the props is undefined has exactly one error, with the
\* name of the field as its property and a message that says that the
\* required property is missing, and isValid is false.
C22_MissingRequired ==
  ValidatedObject =>
    \A i \in 1..Len(TheFields) :
      (TheFields[i].required = Bool(TRUE)
         /\ PropOf(TheFields[i].name) = Undefined)
        => /\ Len(ErrorsOf(TheFields[i].name)) = 1
           /\ BeginsWith(ErrorsOf(TheFields[i].name)[1].message,
                <<"Required property ", QUOTE>> \o TheFields[i].name
                  \o <<QUOTE, " is missing">>)
           /\ result.isValid = FALSE

\* Two required fields, one without a key in the props and one whose key
\* holds undefined.
C22_Witness ==
  /\ ValidatedObject
  /\ Len(TheFields) = 2
  /\ \A i \in 1..2 : TheFields[i].required = Bool(TRUE)
  /\ args[2] = Obj(<<[k |-> TheFields[2].name, v |-> Undefined]>>)
  /\ Len(result.errors) = 2
  /\ result.isValid = FALSE

\* The names of the fields of the schema.
TheNames == {TheFields[i].name : i \in 1..Len(TheFields)}

UnknownMessage(key) ==
  <<"Unknown property ", QUOTE>> \o key \o <<QUOTE, " is not allowed">>

\* C23: for props that are an object, every key that is not the name of a
\* field has exactly one error, with the key as its property and a message
\* that says that the unknown property is not allowed, and isValid is
\* false; a key that is the name of a field has no such error.
C23_UnknownKeys ==
  ValidatedObject =>
    \A i \in 1..Len(args[2].m) :
      LET key == args[2].m[i].k
      IN  IF key \in TheNames
            THEN \A j \in 1..Len(ErrorsOf(key)) :
                   ~BeginsWith(ErrorsOf(key)[j].message, <<"Unknown property ">>)
            ELSE /\ Len(ErrorsOf(key)) = 1
                 /\ ErrorsOf(key)[1].message = UnknownMessage(key)
                 /\ result.isValid = FALSE

\* A key of a field with a good value and an unknown key that holds
\* undefined: one error.
C23_Witness ==
  /\ ValidatedObject
  /\ Len(TheFields) = 1
  /\ Len(args[2].m) = 2
  /\ args[2].m[1] = [k |-> TheFields[1].name, v |-> Str(W("primary"))]
  /\ TheFields[1].values = Words(<<"primary", "secondary">>)
  /\ args[2].m[2] = [k |-> W("unknownProp"), v |-> Undefined]
  /\ Len(result.errors) = 1
  /\ result.errors[1].property = W("unknownProp")

\* The value satisfies the constraint: no constraint, the primitive type
\* that the constraint names, or a member of the listed literals (a single
\* literal lists itself).
Satisfies(value, values) ==
  IF values = Undefined THEN TRUE
  ELSE IF IsArr(values) THEN value \in {values.a[i] : i \in 1..Len(values.a)}
  ELSE IF values.s \in {W("boolean"), W("string"), W("number")}
    THEN \/ values.s = W("boolean") /\ value.t = "bool"
         \/ values.s = W("string") /\ value.t = "str"
         \/ values.s = W("number") /\ value.t = "num"
  ELSE value = values

\* The props are an object that has every required field, a value that
\* satisfies the constraint for every field it has, and no other key.
PropsFitSchema ==
  /\ args[2].t = "object"
  /\ \A i \in 1..Len(TheFields) :
       LET value == PropOf(TheFields[i].name)
       IN  IF value = Undefined
             THEN TheFields[i].required # Bool(TRUE)
             ELSE Satisfies(value, TheFields[i].values)
  /\ \A i \in 1..Len(args[2].m) : args[2].m[i].k \in TheNames

\* C24: validate returns isValid true exactly when the props are a non-null
\* object, every required field is present, every present value satisfies
\* the constraint of its field and the props have no key outside the
\* schema; isValid is true exactly when errors is empty.
C24_ValidExactly ==
  op = "validate" =>
    /\ result.isValid <=> PropsFitSchema
    /\ result.isValid <=> (result.errors = <<>>)

\* Two fields, a list of literals and the type boolean, both given good
\* values.
C24_Witness ==
  /\ ValidatedObject
  /\ Len(TheFields) = 2
  /\ TheFields[1].values = Words(<<"primary", "secondary">>)
  /\ TheFields[1].required = Bool(TRUE)
  /\ TheFields[2].values = Str(W("boolean"))
  /\ args[2] = Obj(<<[k |-> TheFields[2].name, v |-> Bool(TRUE)],
                     [k |-> TheFields[1].name, v |-> Str(W("primary"))]>>)
  /\ result.isValid
  /\ result.errors = <<>>

\* The default of the variant names a key whose value is a string that
\* names a key of the variant too.
DefaultChain(variants) ==
  /\ DefaultNamesKey(variants)
  /\ MapHas(variants, MapGet(variants, DefaultValue(variants)))

\* C25: compile without a selector on a variant whose default names the key
\* K1, where V[K1] is a string that names a key K2, returns the one string
\* V[K1] and not V[K2]; so it does when the default names "default".
C25_OneHop ==
  (CompiledVariant /\ TheKey = Undefined /\ DefaultChain(TheVariant))
    => /\ IsResult(result)
       /\ result.value = <<MapGet(TheVariant, DefaultValue(TheVariant))>>

\* default names sm, sm names md: the result is the string "md".
C25_Witness ==
  /\ CompiledVariant
  /\ root = RootChain
  /\ TheKey = Undefined
  /\ result.value = <<Str(W("md"))>>

\* C26: identify of the path of length zero does not throw: the path is
\* one empty segment, so the package is null, the variant is the empty
\* string and the selector is null.
C26_EmptyPath ==
  (op = "identify" /\ args[1] = <<>>)
    => /\ result.kind = "Identifier"
       /\ result.id = [package |-> Null, variant |-> Str(<<>>),
                       variation |-> Null]

C26_Witness ==
  /\ op = "identify"
  /\ Len(args[1]) = 0
  /\ Len(split(args[1], DOT)) = 1
  /\ result.kind # "throw"

\* The path names a known package and has a selector other than the
\* wildcard, and the search of the package finds no variant for it.
MissesVariant(path) ==
  LET id == identify(path)
      packageContainer == findPackageByName(root, id.package)
  IN  /\ packageContainer # Null
      /\ id.variation # Null
      /\ id.variation # Str(STAR)
      /\ Package_search(packageContainer.value, getFullString(id)).kind
           = "undefined"

C28_NoPath ==
  (op = "StyleSet.search" /\ Len(args) = 0)
    => /\ IsResult(result)
       /\ VariantResult_length(result) = 0
       /\ VariantResult_toString(result) = <<>>

C28_Witness ==
  /\ op = "StyleSet.search"
  /\ args = <<>>
  /\ root = RootDoc
  /\ result = VariantResult(Arr(<<>>))

\* No segment of the path is empty.
NoEmptySegment(path) ==
  \A i \in 1..Len(split(path, DOT)) : split(path, DOT)[i] # <<>>

\* C29: for a path of any number of segments, none empty, identify of the
\* full string of its Identifier gives the package, variant and variation
\* of that Identifier again; for more than three segments the full string
\* is the first three segments joined by dots.
C29_Idempotent ==
  (op = "getFullString" /\ NoEmptySegment(args[1]))
    => /\ identify(result.s) = identify(args[1])
       /\ Len(IdParts) > 3 => result.s = Dotted(SubSeq(IdParts, 1, 3))

C29_Witness ==
  /\ op = "getFullString"
  /\ args[1] = Dotted(<<W("a"), W("b"), W("c"), W("b")>>)
  /\ result.s = Dotted(<<W("a"), W("b"), W("c")>>)
  /\ identify(result.s) = identify(args[1])

\* C30: validate does not throw for props that are not an object: for null,
\* undefined and the primitives it returns isValid false and one error,
\* whose property is "root"; no field and no key is checked.
C30_NotAnObject ==
  (op = "validate" /\ args[2].t # "object")
    => /\ result.kind = "ValidationResult"
       /\ result.isValid = FALSE
       /\ Len(result.errors) = 1
       /\ result.errors[1].property = W("root")

\* null as the props of a schema with two required fields.
C30_Witness ==
  /\ op = "validate"
  /\ args[2] = Null
  /\ Len(TheFields) = 2
  /\ \A i \in 1..2 : TheFields[i].required = Bool(TRUE)
  /\ Len(result.errors) = 1
  /\ result.errors[1].actualValue = Null

====
